---- MODULE Spec2Model ----
(***************************************************************************)
(* Model of the Brezn AI development agent (.github/scripts/ai_agent.py):  *)
(* feature-status detection, feature selection, patch insertion and the    *)
(* gated validation of one pipeline run, plus the process exit code.       *)
(*                                                                         *)
(* File content is a sequence of words.  A Python substring test           *)
(* `needle in content` is a search for a contiguous run of words,          *)
(* `content.lower()` lower-cases every word, `content.rfind("}")` is the   *)
(* 0-based position of the last "}" word or -1, and slicing and `+` are    *)
(* SubSeq and \o.  The three code templates are represented by the words   *)
(* of their text that any check of the agent looks for, in text order.     *)
(***************************************************************************)
EXTENDS Integers, Sequences, FiniteSets, TLC

VARIABLES
    files,      \* brezn/src: file name -> [exists, text]
    features,   \* self.features: feature name -> [status]
    status,     \* the dict built by analyze_project_status and filled by run
    pc,         \* position of the process inside main/run
    success,    \* run's local `success` (result of implement_feature)
    procs,      \* external processes started by this process, in order
    exit_code,  \* argument of sys.exit, -1 while the process is running
    runs,       \* number of pipeline runs started on the checkout
    checkout,   \* the files as first checked out
    pre,        \* the files when the current run (or the last call) began
    focus,      \* feature name a direct caller passes to the methods
    calls,      \* direct method calls made so far: [op, arg, ret]
    last_run    \* the previous run on the checkout: its report, the features
                \* it recorded, the files it started from, its `success`

vars == <<files, features, status, pc, success, procs, exit_code, runs,
          checkout, pre, focus, calls, last_run>>

-----------------------------------------------------------------------------
(* Bounds *)

MaxLen == 4
MaxRuns == 2
MaxCalls == 3

-----------------------------------------------------------------------------
(* The feature catalog, ai_agent.py:20-39 *)

FeatureOrder == <<"p2p-peer-discovery", "tor-integration", "qr-code-implementation">>

Features == {FeatureOrder[i] : i \in 1..Len(FeatureOrder)}

Priority(f) ==
    CASE f = "p2p-peer-discovery" -> "high"
      [] f = "tor-integration" -> "medium"
      [] f = "qr-code-implementation" -> "low"

InitFeatures == [f \in Features |-> [priority |-> Priority(f), status |-> "pending"]]

FileNames == {"network.rs", "tor.rs", "discovery.rs"}

NoFile == [exists |-> FALSE, text |-> <<>>]

File(text) == [exists |-> TRUE, text |-> text]

-----------------------------------------------------------------------------
(* Python string operations on word sequences *)

\* str.lower(), word by word
Lower(w) ==
    CASE w = "UDP" -> "udp"
      [] w = "BROADCAST" -> "broadcast"
      [] w = "PEER" -> "peer"
      [] w = "DISCOVERY" -> "discovery"
      [] w = "SOCKS5" -> "socks5"
      [] w = "PROXY" -> "proxy"
      [] w = "INTEGRATION" -> "integration"
      [] w = "QR" -> "qr"
      [] w = "CODE" -> "code"
      [] w = "IMPLEMENTATION" -> "implementation"
      [] w = "UdpSocket" -> "udpsocket"
      [] OTHER -> w

LowerText(content) == [i \in 1..Len(content) |-> Lower(content[i])]

\* needle in content
In(needle, content) ==
    \E i \in 0..(Len(content) - Len(needle)) :
        \A j \in 1..Len(needle) : content[i + j] = needle[j]

\* variant: content.find(w), the first occurrence
RFind_first(content, w) ==
    IF \E i \in 1..Len(content) : content[i] = w
    THEN (CHOOSE i \in 1..Len(content) :
              /\ content[i] = w
              /\ \A k \in 1..(i - 1) : content[k] # w) - 1
    ELSE -1

\* content.rfind(w), 0-based, -1 when w does not occur
RFind(content, w) ==
    IF \E i \in 1..Len(content) : content[i] = w
    THEN (CHOOSE i \in 1..Len(content) :
              /\ content[i] = w
              /\ \A k \in (i + 1)..Len(content) : content[k] # w) - 1
    ELSE -1

\* content[:pos] and content[pos:]
SliceTo(content, pos) == SubSeq(content, 1, pos)

SliceFrom(content, pos) == SubSeq(content, pos + 1, Len(content))

-----------------------------------------------------------------------------
(* Idempotency markers and code templates, ai_agent.py:165-235, 260-317,   *)
(* 341-418.  Every template starts with a comment banner holding the       *)
(* marker and ends with a closing brace and a newline.                     *)

Marker(f) ==
    CASE f = "p2p-peer-discovery" -> <<"UDP", "BROADCAST", "PEER", "DISCOVERY">>
      [] f = "tor-integration" -> <<"SOCKS5", "PROXY", "INTEGRATION">>
      [] f = "qr-code-implementation" -> <<"QR", "CODE", "IMPLEMENTATION">>

udp_discovery_code ==
    <<"//", "UDP", "BROADCAST", "PEER", "DISCOVERY", "IMPLEMENTATION",
      "UdpSocket", "broadcast", "}", "\n">>

\* variant: the template without its banner comment
socks5_code_nobanner == <<"socks5", "proxy", "}", "\n">>

socks5_code ==
    <<"//", "SOCKS5", "PROXY", "INTEGRATION", "IMPLEMENTATION",
      "socks5", "proxy", "}", "\n">>

qr_code_impl ==
    <<"//", "QR", "CODE", "IMPLEMENTATION",
      "qr_code", "generate", "parse", "}", "\n">>

TargetFile(f) ==
    CASE f = "p2p-peer-discovery" -> "network.rs"
      [] f = "tor-integration" -> "tor.rs"
      [] f = "qr-code-implementation" -> "discovery.rs"

-----------------------------------------------------------------------------
(* Status Analyzer, ai_agent.py:76-129 *)

_check_p2p_implementation(fs) ==
    LET network_file == fs["network.rs"] IN
    IF ~network_file.exists THEN FALSE
    ELSE LET content == network_file.text
             has_udp_discovery ==
                 In(<<"UdpSocket">>, content) /\ In(<<"broadcast">>, LowerText(content))
             has_peer_registry ==
                 In(<<"peer_registry">>, content) \/ In(<<"peer_registry">>, content)
             has_heartbeat ==
                 In(<<"heartbeat">>, content) /\ In(<<"ping">>, content)
                     /\ In(<<"pong">>, content)
         IN  has_udp_discovery /\ has_peer_registry /\ has_heartbeat

\* variant: `or` in place of `and` in has_proxy_integration
_check_tor_implementation_any(fs) ==
    LET tor_file == fs["tor.rs"] IN
    IF ~tor_file.exists THEN FALSE
    ELSE LET content == tor_file.text
             has_socks5 ==
                 In(<<"socks5">>, LowerText(content)) \/ In(<<"SOCKS5">>, content)
             has_tor_routing ==
                 In(<<"tor_routing">>, content) \/ In(<<"circuit">>, content)
             has_proxy_integration ==
                 In(<<"proxy">>, content) \/ In(<<"integration">>, content)
         IN  has_socks5 /\ has_tor_routing /\ has_proxy_integration

_check_tor_implementation(fs) ==
    LET tor_file == fs["tor.rs"] IN
    IF ~tor_file.exists THEN FALSE
    ELSE LET content == tor_file.text
             has_socks5 ==
                 In(<<"socks5">>, LowerText(content)) \/ In(<<"SOCKS5">>, content)
             has_tor_routing ==
                 In(<<"tor_routing">>, content) \/ In(<<"circuit">>, content)
             has_proxy_integration ==
                 In(<<"proxy">>, content) /\ In(<<"integration">>, content)
         IN  has_socks5 /\ has_tor_routing /\ has_proxy_integration

_check_qr_implementation(fs) ==
    LET discovery_file == fs["discovery.rs"] IN
    IF ~discovery_file.exists THEN FALSE
    ELSE LET content == discovery_file.text
             has_qr_generation ==
                 In(<<"qr_code">>, content) /\ In(<<"generate">>, content)
             has_qr_parsing ==
                 In(<<"qr_code">>, content) /\ In(<<"parse">>, content)
             has_peer_join ==
                 In(<<"peer_join">>, content) \/ In(<<"join_network">>, content)
         IN  has_qr_generation /\ has_qr_parsing /\ has_peer_join

\* variant: once an analysis has been made, the status it recorded is
\* returned instead of reading the file again
_is_feature_implemented_memo(feature_name, fs) ==
    IF status.keys # {} /\ feature_name \in Features
    THEN features[feature_name].status = "completed"
    ELSE IF feature_name = "p2p-peer-discovery" THEN _check_p2p_implementation(fs)
    ELSE IF feature_name = "tor-integration" THEN _check_tor_implementation(fs)
    ELSE IF feature_name = "qr-code-implementation" THEN _check_qr_implementation(fs)
    ELSE FALSE

_is_feature_implemented(feature_name, fs) ==
    IF feature_name = "p2p-peer-discovery" THEN _check_p2p_implementation(fs)
    ELSE IF feature_name = "tor-integration" THEN _check_tor_implementation(fs)
    ELSE IF feature_name = "qr-code-implementation" THEN _check_qr_implementation(fs)
    ELSE FALSE

-----------------------------------------------------------------------------
(* Feature Selector, ai_agent.py:131-136: the first pending feature in     *)
(* dict (declaration) order.                                               *)

RECURSIVE NextFrom(_, _)
NextFrom(feats, i) ==
    IF i > Len(FeatureOrder) THEN "none"
    ELSE IF feats[FeatureOrder[i]].status = "pending" THEN FeatureOrder[i]
    ELSE NextFrom(feats, i + 1)

RECURSIVE LastFrom(_, _)
LastFrom(feats, i) ==
    IF i < 1 THEN "none"
    ELSE IF feats[FeatureOrder[i]].status = "pending" THEN FeatureOrder[i]
    ELSE LastFrom(feats, i - 1)

\* variant: the catalog walked in reverse order
_get_next_feature_last(feats) == LastFrom(feats, Len(FeatureOrder))

PriorityRank(p) == CASE p = "high" -> 1 [] p = "medium" -> 2 [] p = "low" -> 3

\* variant: the pending feature of highest priority, the first declared
\* among equals
_get_next_feature_by_priority(feats) ==
    LET pending == {i \in 1..Len(FeatureOrder) : feats[FeatureOrder[i]].status = "pending"} IN
    IF pending = {} THEN "none"
    ELSE FeatureOrder[CHOOSE i \in pending :
             \A k \in pending :
                 \/ PriorityRank(feats[FeatureOrder[i]].priority)
                        < PriorityRank(feats[FeatureOrder[k]].priority)
                 \/ /\ PriorityRank(feats[FeatureOrder[i]].priority)
                           = PriorityRank(feats[FeatureOrder[k]].priority)
                    /\ i <= k]

_get_next_feature(feats) == NextFrom(feats, 1)

-----------------------------------------------------------------------------
(* Patch Applier, ai_agent.py:138-430.  Each operator returns the value    *)
(* the method returns and the files it leaves behind.                      *)

WriteText(fs, name, text) == [fs EXCEPT ![name] = File(text)]

\* variant: no test for the marker before inserting
_implement_p2p_peer_discovery_nocheck(fs) ==
    LET network_file == fs["network.rs"] IN
    IF ~network_file.exists THEN [ret |-> FALSE, files |-> fs]
    ELSE LET content == network_file.text IN
         IF In(<<"}">>, content)
         THEN LET insert_pos == RFind(content, "}")
                  new_content == SliceTo(content, insert_pos) \o udp_discovery_code
                                     \o <<"\n">> \o SliceFrom(content, insert_pos)
              IN  [ret |-> TRUE, files |-> WriteText(fs, "network.rs", new_content)]
         ELSE [ret |-> TRUE, files |-> fs]

_implement_p2p_peer_discovery(fs) ==
    LET network_file == fs["network.rs"] IN
    IF ~network_file.exists THEN [ret |-> FALSE, files |-> fs]
    ELSE LET content == network_file.text IN
         IF ~In(<<"UDP", "BROADCAST", "PEER", "DISCOVERY">>, content)
         THEN IF In(<<"}">>, content)
              THEN LET insert_pos == RFind(content, "}")
                       new_content == SliceTo(content, insert_pos) \o udp_discovery_code
                                          \o <<"\n">> \o SliceFrom(content, insert_pos)
                   IN  [ret |-> TRUE, files |-> WriteText(fs, "network.rs", new_content)]
              ELSE [ret |-> TRUE, files |-> fs]
         ELSE [ret |-> TRUE, files |-> fs]

\* variant: the result written to network.rs, the other file of the feature
_implement_tor_integration_wrongfile(fs) ==
    LET tor_file == fs["tor.rs"] IN
    IF ~tor_file.exists THEN [ret |-> FALSE, files |-> fs]
    ELSE IF ~In(<<"SOCKS5", "PROXY", "INTEGRATION">>, tor_file.text)
         THEN LET tor_content == tor_file.text IN
              IF In(<<"}">>, tor_content)
              THEN LET insert_pos == RFind(tor_content, "}")
                       new_content == SliceTo(tor_content, insert_pos) \o socks5_code
                                          \o <<"\n">> \o SliceFrom(tor_content, insert_pos)
                   IN  [ret |-> TRUE, files |-> WriteText(fs, "network.rs", new_content)]
              ELSE [ret |-> TRUE, files |-> fs]
         ELSE [ret |-> TRUE, files |-> fs]

_implement_tor_integration(fs) ==
    LET tor_file == fs["tor.rs"] IN
    IF ~tor_file.exists THEN [ret |-> FALSE, files |-> fs]
    ELSE IF ~In(<<"SOCKS5", "PROXY", "INTEGRATION">>, tor_file.text)
         THEN LET tor_content == tor_file.text IN
              IF In(<<"}">>, tor_content)
              THEN LET insert_pos == RFind(tor_content, "}")
                       new_content == SliceTo(tor_content, insert_pos) \o socks5_code
                                          \o <<"\n">> \o SliceFrom(tor_content, insert_pos)
                   IN  [ret |-> TRUE, files |-> WriteText(fs, "tor.rs", new_content)]
              ELSE [ret |-> TRUE, files |-> fs]
         ELSE [ret |-> TRUE, files |-> fs]

\* variant: the new content of discovery.rs written over network.rs
_implement_qr_code_wrongfile(fs) ==
    LET discovery_file == fs["discovery.rs"] IN
    IF ~discovery_file.exists THEN [ret |-> FALSE, files |-> fs]
    ELSE IF ~In(<<"QR", "CODE", "IMPLEMENTATION">>, discovery_file.text)
         THEN LET discovery_content == discovery_file.text IN
              IF In(<<"}">>, discovery_content)
              THEN LET insert_pos == RFind(discovery_content, "}")
                       new_content == SliceTo(discovery_content, insert_pos) \o qr_code_impl
                                          \o <<"\n">> \o SliceFrom(discovery_content, insert_pos)
                   IN  [ret |-> TRUE, files |-> WriteText(fs, "network.rs", new_content)]
              ELSE [ret |-> TRUE, files |-> fs]
         ELSE [ret |-> TRUE, files |-> fs]

\* variant: the marker test inverted
_implement_qr_code_inverted(fs) ==
    LET discovery_file == fs["discovery.rs"] IN
    IF ~discovery_file.exists THEN [ret |-> FALSE, files |-> fs]
    ELSE IF In(<<"QR", "CODE", "IMPLEMENTATION">>, discovery_file.text)
         THEN LET discovery_content == discovery_file.text IN
              IF In(<<"}">>, discovery_content)
              THEN LET insert_pos == RFind(discovery_content, "}")
                       new_content == SliceTo(discovery_content, insert_pos) \o qr_code_impl
                                          \o <<"\n">> \o SliceFrom(discovery_content, insert_pos)
                   IN  [ret |-> TRUE, files |-> WriteText(fs, "discovery.rs", new_content)]
              ELSE [ret |-> TRUE, files |-> fs]
         ELSE [ret |-> TRUE, files |-> fs]

_implement_qr_code(fs) ==
    LET discovery_file == fs["discovery.rs"] IN
    IF ~discovery_file.exists THEN [ret |-> FALSE, files |-> fs]
    ELSE IF ~In(<<"QR", "CODE", "IMPLEMENTATION">>, discovery_file.text)
         THEN LET discovery_content == discovery_file.text IN
              IF In(<<"}">>, discovery_content)
              THEN LET insert_pos == RFind(discovery_content, "}")
                       new_content == SliceTo(discovery_content, insert_pos) \o qr_code_impl
                                          \o <<"\n">> \o SliceFrom(discovery_content, insert_pos)
                   IN  [ret |-> TRUE, files |-> WriteText(fs, "discovery.rs", new_content)]
              ELSE [ret |-> TRUE, files |-> fs]
         ELSE [ret |-> TRUE, files |-> fs]

\* variant: the last branch of the dispatch is a plain else
implement_feature_else_qr(feature_name, fs) ==
    IF feature_name = "p2p-peer-discovery" THEN _implement_p2p_peer_discovery(fs)
    ELSE IF feature_name = "tor-integration" THEN _implement_tor_integration(fs)
    ELSE _implement_qr_code(fs)

implement_feature(feature_name, fs) ==
    IF feature_name = "p2p-peer-discovery" THEN _implement_p2p_peer_discovery(fs)
    ELSE IF feature_name = "tor-integration" THEN _implement_tor_integration(fs)
    ELSE IF feature_name = "qr-code-implementation" THEN _implement_qr_code(fs)
    ELSE [ret |-> FALSE, files |-> fs]

-----------------------------------------------------------------------------
(* Validation Gate, ai_agent.py:432-481.  An external process ends with    *)
(* exit status 0, with another exit status, by exceeding its timeout       *)
(* (subprocess.TimeoutExpired) or by failing to start (OSError).           *)

Outcomes == {"exit0", "nonzero", "timeout", "error"}

\* variant: the exit status is not looked at
run_tests_any_exit(outcome) ==
    IF outcome = "timeout" THEN FALSE
    ELSE IF outcome = "error" THEN FALSE
    ELSE TRUE

run_tests(outcome) ==
    IF outcome = "timeout" THEN FALSE
    ELSE IF outcome = "error" THEN FALSE
    ELSE IF outcome = "exit0" THEN TRUE
    ELSE FALSE

format_code(outcome) ==
    IF outcome \in {"timeout", "error"} THEN FALSE
    ELSE IF outcome = "exit0" THEN TRUE
    ELSE FALSE

-----------------------------------------------------------------------------
(* analyze_project_status, ai_agent.py:41-74.  The dict is a record with   *)
(* the set of keys it holds; the keys "features" (the catalog itself) and  *)
(* "timestamp" carry no field of their own.                                *)

EmptyStatus ==
    [keys |-> {}, mvp_progress |-> 0, completed_features |-> 0, total_features |-> 0,
     next_feature |-> "", last_implementation |-> "", implementation_success |-> FALSE]

AnalyzedFeatures(fs) ==
    [f \in Features |->
        [InitFeatures[f] EXCEPT
            !.status = IF _is_feature_implemented(f, fs) THEN "completed" ELSE "pending"]]

\* variant: the next feature chosen before the statuses are updated
analyze_project_status_stale_next(fs) ==
    LET feats == AnalyzedFeatures(fs)
        total_features == Len(FeatureOrder)
        completed_features == Cardinality({f \in Features : feats[f].status = "completed"})
        mvp_progress == (completed_features * 100) \div total_features
        next_feature == _get_next_feature(InitFeatures)
    IN  [features |-> feats,
         status |-> [EmptyStatus EXCEPT
                        !.keys = {"mvp_progress", "completed_features", "total_features",
                                  "next_feature", "features", "timestamp"},
                        !.mvp_progress = mvp_progress,
                        !.completed_features = completed_features,
                        !.total_features = total_features,
                        !.next_feature = next_feature]]

\* variant: the division made before the multiplication
analyze_project_status_divfirst(fs) ==
    LET feats == AnalyzedFeatures(fs)
        total_features == Len(FeatureOrder)
        completed_features == Cardinality({f \in Features : feats[f].status = "completed"})
        mvp_progress == (completed_features \div total_features) * 100
        next_feature == _get_next_feature(feats)
    IN  [features |-> feats,
         status |-> [EmptyStatus EXCEPT
                        !.keys = {"mvp_progress", "completed_features", "total_features",
                                  "next_feature", "features", "timestamp"},
                        !.mvp_progress = mvp_progress,
                        !.completed_features = completed_features,
                        !.total_features = total_features,
                        !.next_feature = next_feature]]

analyze_project_status(fs) ==
    LET feats == AnalyzedFeatures(fs)
        total_features == Len(FeatureOrder)
        completed_features == Cardinality({f \in Features : feats[f].status = "completed"})
        mvp_progress == (completed_features * 100) \div total_features
        next_feature == _get_next_feature(feats)
    IN  [features |-> feats,
         status |-> [EmptyStatus EXCEPT
                        !.keys = {"mvp_progress", "completed_features", "total_features",
                                  "next_feature", "features", "timestamp"},
                        !.mvp_progress = mvp_progress,
                        !.completed_features = completed_features,
                        !.total_features = total_features,
                        !.next_feature = next_feature]]

\* status[key] = value
SetKey(st, key, value) ==
    CASE key = "implementation_success" ->
             [st EXCEPT !.keys = @ \cup {key}, !.implementation_success = value]
      [] key = "last_implementation" ->
             [st EXCEPT !.keys = @ \cup {key}, !.last_implementation = value]

\* result.get("implementation_success", False)
GetImplementationSuccess(st) ==
    IF "implementation_success" \in st.keys THEN st.implementation_success ELSE FALSE

-----------------------------------------------------------------------------
(* Checkouts the agent is run on *)

Needles(f) ==
    CASE f = "p2p-peer-discovery" ->
             <<"UdpSocket", "broadcast", "peer_registry", "heartbeat", "ping", "pong">>
      [] f = "tor-integration" ->
             <<"socks5", "tor_routing", "circuit", "proxy", "integration">>
      [] f = "qr-code-implementation" ->
             <<"qr_code", "generate", "parse", "peer_join", "join_network">>

RECURSIVE Pick(_, _, _)
\* the words of seq at the positions in S, from position i on
Pick(seq, S, i) ==
    IF i > Len(seq) THEN <<>>
    ELSE (IF i \in S THEN <<seq[i]>> ELSE <<>>) \o Pick(seq, S, i + 1)

Seqs(A, n) == UNION {[1..k -> A] : k \in 0..n}

MarkerWords(f) == {Marker(f)[i] : i \in 1..Len(Marker(f))}

Tails(f) ==
    {<<>>, <<"}">>, <<"//">> \o Marker(f) \o <<"}">>,
     SubSeq(Marker(f), 1, 1) \o <<"}">> \o SubSeq(Marker(f), 2, Len(Marker(f)))}

\* contents of a feature's target file for direct calls of the methods
UnitContents(f) ==
    Seqs({"}"} \cup MarkerWords(f), MaxLen)
        \cup {Pick(Needles(f), S, 1) \o t : S \in SUBSET (1..Len(Needles(f))), t \in Tails(f)}

\* contents of a feature's target file for pipeline runs
RunContents(f) ==
    LET all == 1..Len(Needles(f)) IN
    {Pick(Needles(f), S, 1) \o t : S \in {{}, all, all \ {1}}, t \in Tails(f)}

UnknownFeature == "unknown-feature"

-----------------------------------------------------------------------------
(* Pipeline runs: main and run, ai_agent.py:483-527.  run is cut at the    *)
(* two external process calls, the only places where it waits.             *)

RunFileValues(f) == {NoFile} \cup {File(c) : c \in RunContents(f)}

RunCheckouts ==
    {[n \in FileNames |->
         CASE n = "network.rs" -> a
           [] n = "tor.rs" -> b
           [] n = "discovery.rs" -> c] :
     a \in RunFileValues("p2p-peer-discovery"),
     b \in RunFileValues("tor-integration"),
     c \in RunFileValues("qr-code-implementation")}

Init ==
    /\ files \in RunCheckouts
    /\ features = InitFeatures
    /\ status = EmptyStatus
    /\ pc = "start"
    /\ success = FALSE
    /\ procs = <<>>
    /\ exit_code = -1
    /\ runs = 1
    /\ checkout = files
    /\ pre = files
    /\ focus = "none"
    /\ calls = <<>>
    /\ last_run = [status |-> EmptyStatus, features |-> InitFeatures, files |-> files,
                   success |-> FALSE]

\* status = self.analyze_project_status()
AnalyzeProjectStatus ==
    /\ pc = "start"
    /\ LET r == analyze_project_status(files) IN
           /\ features' = r.features
           /\ status' = r.status
    /\ pc' = "analyzed"
    /\ UNCHANGED <<last_run, files, success, procs, exit_code, runs, checkout, pre, focus, calls>>

\* variant: no test for the file before reading it; read_text raises
\* FileNotFoundError, which nothing catches, and the process dies
ImplementFeature_raises ==
    /\ pc = "analyzed"
    /\ status.next_feature # "none"
    /\ IF status.next_feature \in Features /\ ~files[TargetFile(status.next_feature)].exists
       THEN /\ pc' = "crashed"
            /\ UNCHANGED <<files, success, status>>
       ELSE LET r == implement_feature(status.next_feature, files) IN
                /\ files' = r.files
                /\ success' = r.ret
                /\ IF r.ret
                   THEN /\ pc' = "testing"
                        /\ UNCHANGED status
                   ELSE /\ status' = SetKey(status, "implementation_success", FALSE)
                        /\ pc' = "finished"
    /\ UNCHANGED <<last_run, features, procs, exit_code, runs, checkout, pre, focus, calls>>

\* variant: the tests are run whatever implement_feature returned
ImplementFeature_ungated ==
    /\ pc = "analyzed"
    /\ status.next_feature # "none"
    /\ LET r == implement_feature(status.next_feature, files) IN
           /\ files' = r.files
           /\ success' = r.ret
    /\ pc' = "testing"
    /\ UNCHANGED <<last_run, status, features, procs, exit_code, runs, checkout, pre, focus, calls>>

\* success = self.implement_feature(status["next_feature"]), and the else
\* branch of `if success`
ImplementFeature ==
    /\ pc = "analyzed"
    /\ status.next_feature # "none"
    /\ LET r == implement_feature(status.next_feature, files) IN
           /\ files' = r.files
           /\ success' = r.ret
           /\ IF r.ret
              THEN /\ pc' = "testing"
                   /\ UNCHANGED status
              ELSE /\ status' = SetKey(status, "implementation_success", FALSE)
                   /\ pc' = "finished"
    /\ UNCHANGED <<last_run, features, procs, exit_code, runs, checkout, pre, focus, calls>>

\* variant: the idle branch reports False
AllImplemented_false ==
    /\ pc = "analyzed"
    /\ status.next_feature = "none"
    /\ status' = SetKey(status, "implementation_success", FALSE)
    /\ pc' = "finished"
    /\ UNCHANGED <<last_run, files, features, success, procs, exit_code, runs, checkout, pre,
                   focus, calls>>

\* the else branch of `if status["next_feature"] != "none"`
AllImplemented ==
    /\ pc = "analyzed"
    /\ status.next_feature = "none"
    /\ status' = SetKey(status, "implementation_success", TRUE)
    /\ pc' = "finished"
    /\ UNCHANGED <<last_run, files, features, success, procs, exit_code, runs, checkout, pre,
                   focus, calls>>

\* variant: failed tests are run a second time
RunTests_retry(outcome) ==
    /\ pc = "testing"
    /\ procs' = Append(procs, [cmd |-> "cargo test", outcome |-> outcome])
    /\ IF run_tests(outcome)
       THEN /\ pc' = "formatting"
            /\ UNCHANGED status
       ELSE IF procs = <<>>
            THEN UNCHANGED <<pc, status>>
            ELSE /\ status' = SetKey(status, "implementation_success", FALSE)
                 /\ pc' = "finished"
    /\ UNCHANGED <<last_run, files, features, success, exit_code, runs, checkout, pre, focus, calls>>

\* variant: last_implementation also set when the tests fail
RunTests_records_attempt(outcome) ==
    /\ pc = "testing"
    /\ procs' = Append(procs, [cmd |-> "cargo test", outcome |-> outcome])
    /\ IF run_tests(outcome)
       THEN /\ pc' = "formatting"
            /\ UNCHANGED status
       ELSE /\ status' = SetKey(SetKey(status, "last_implementation", status.next_feature),
                                "implementation_success", FALSE)
            /\ pc' = "finished"
    /\ UNCHANGED <<last_run, files, features, success, exit_code, runs, checkout, pre, focus, calls>>

\* variant: failed tests restore the files the run began with
RunTests_rollback(outcome) ==
    /\ pc = "testing"
    /\ procs' = Append(procs, [cmd |-> "cargo test", outcome |-> outcome])
    /\ IF run_tests(outcome)
       THEN /\ pc' = "formatting"
            /\ UNCHANGED <<status, files>>
       ELSE /\ status' = SetKey(status, "implementation_success", FALSE)
            /\ files' = pre
            /\ pc' = "finished"
    /\ UNCHANGED <<last_run, features, success, exit_code, runs, checkout, pre, focus, calls>>

\* variant: implementation_success set to True in the else branch
RunTests_else_true(outcome) ==
    /\ pc = "testing"
    /\ procs' = Append(procs, [cmd |-> "cargo test", outcome |-> outcome])
    /\ IF run_tests(outcome)
       THEN /\ pc' = "formatting"
            /\ UNCHANGED status
       ELSE /\ status' = SetKey(status, "implementation_success", TRUE)
            /\ pc' = "finished"
    /\ UNCHANGED <<last_run, files, features, success, exit_code, runs, checkout, pre, focus, calls>>

\* if self.run_tests(), and its else branch
RunTests(outcome) ==
    /\ pc = "testing"
    /\ procs' = Append(procs, [cmd |-> "cargo test", outcome |-> outcome])
    /\ IF run_tests(outcome)
       THEN /\ pc' = "formatting"
            /\ UNCHANGED status
       ELSE /\ status' = SetKey(status, "implementation_success", FALSE)
            /\ pc' = "finished"
    /\ UNCHANGED <<last_run, files, features, success, exit_code, runs, checkout, pre, focus, calls>>

\* variant: implementation_success takes the formatter's result
FormatCode_gated(outcome) ==
    /\ pc = "formatting"
    /\ procs' = Append(procs, [cmd |-> "cargo fmt", outcome |-> outcome])
    /\ status' = SetKey(SetKey(status, "last_implementation", status.next_feature),
                        "implementation_success", format_code(outcome))
    /\ pc' = "finished"
    /\ UNCHANGED <<last_run, files, features, success, exit_code, runs, checkout, pre, focus, calls>>

\* self.format_code() and the two assignments after it
FormatCode(outcome) ==
    /\ pc = "formatting"
    /\ procs' = Append(procs, [cmd |-> "cargo fmt", outcome |-> outcome])
    /\ status' = SetKey(SetKey(status, "last_implementation", status.next_feature),
                        "implementation_success", TRUE)
    /\ pc' = "finished"
    /\ UNCHANGED <<last_run, files, features, success, exit_code, runs, checkout, pre, focus, calls>>

\* variant: the two exit codes swapped
Exit_swapped ==
    /\ pc = "finished"
    /\ exit_code' = IF GetImplementationSuccess(status) THEN 1 ELSE 0
    /\ pc' = "exited"
    /\ UNCHANGED <<last_run, files, features, status, success, procs, runs, checkout, pre,
                   focus, calls>>

\* main after agent.run() returned: sys.exit(0) or sys.exit(1)
Exit ==
    /\ pc = "finished"
    /\ exit_code' = IF GetImplementationSuccess(status) THEN 0 ELSE 1
    /\ pc' = "exited"
    /\ UNCHANGED <<last_run, files, features, status, success, procs, runs, checkout, pre,
                   focus, calls>>

\* the CI scheduler starts the agent again on the same checkout:
\* a new process, a new BreznAIAgent
NextRun ==
    /\ pc = "exited"
    /\ runs < MaxRuns
    /\ runs' = runs + 1
    /\ features' = InitFeatures
    /\ status' = EmptyStatus
    /\ pc' = "start"
    /\ success' = FALSE
    /\ procs' = <<>>
    /\ exit_code' = -1
    /\ pre' = files
    /\ last_run' = [status |-> status, features |-> features, files |-> pre,
                    success |-> success]
    /\ UNCHANGED <<files, checkout, focus, calls>>

Next ==
    \/ AnalyzeProjectStatus
    \/ ImplementFeature
    \/ AllImplemented
    \/ \E outcome \in Outcomes : RunTests(outcome)
    \/ \E outcome \in Outcomes : FormatCode(outcome)
    \/ Exit
    \/ NextRun

Spec == Init /\ [][Next]_vars

\* the steps of the agent process itself.  The process is sequential and
\* each of its two subprocess.run calls returns or raises within its
\* timeout (300 and 60), so a started run keeps taking steps until it
\* exits; when the scheduler starts the next run is left open.
RunStep ==
    \/ AnalyzeProjectStatus
    \/ ImplementFeature
    \/ AllImplemented
    \/ \E outcome \in Outcomes : RunTests(outcome)
    \/ \E outcome \in Outcomes : FormatCode(outcome)
    \/ Exit

FairSpec == Init /\ [][Next]_vars /\ WF_vars(RunStep)

-----------------------------------------------------------------------------
(* Direct calls of the agent's methods on a checkout, as a test of the     *)
(* methods makes them: one agent object, any sequence of calls with the    *)
(* name `focus`.                                                           *)

UnitFileValues(f) == {NoFile} \cup {File(c) : c \in UnitContents(f)}

UnitCheckouts(name) ==
    IF name \in Features
    THEN {[n \in FileNames |-> IF n = TargetFile(name) THEN v ELSE File(<<"}">>)] :
          v \in UnitFileValues(name)}
    ELSE {[n \in FileNames |-> File(<<"}">>)]}

UnitInit ==
    /\ focus \in Features \cup {UnknownFeature}
    /\ files \in UnitCheckouts(focus)
    /\ features = InitFeatures
    /\ status = EmptyStatus
    /\ pc = "start"
    /\ success = FALSE
    /\ procs = <<>>
    /\ exit_code = -1
    /\ runs = 0
    /\ checkout = files
    /\ pre = files
    /\ calls = <<>>
    /\ last_run = [status |-> EmptyStatus, features |-> InitFeatures, files |-> files,
                   success |-> FALSE]

CallIsFeatureImplemented ==
    /\ Len(calls) < MaxCalls
    /\ calls' = Append(calls, [op |-> "_is_feature_implemented", arg |-> focus,
                               ret |-> _is_feature_implemented(focus, files)])
    /\ pre' = files
    /\ UNCHANGED <<last_run, files, features, status, pc, success, procs, exit_code, runs,
                   checkout, focus>>

CallImplementFeature ==
    /\ Len(calls) < MaxCalls
    /\ LET r == implement_feature(focus, files) IN
           /\ files' = r.files
           /\ calls' = Append(calls, [op |-> "implement_feature", arg |-> focus,
                                      ret |-> r.ret])
    /\ pre' = files
    /\ UNCHANGED <<last_run, features, status, pc, success, procs, exit_code, runs, checkout, focus>>

\* agent.analyze_project_status(); the dict it returns is kept in `status`
CallAnalyzeProjectStatus ==
    /\ Len(calls) < MaxCalls
    /\ LET r == analyze_project_status(files) IN
           /\ features' = r.features
           /\ status' = r.status
    /\ calls' = Append(calls, [op |-> "analyze_project_status", arg |-> "", ret |-> TRUE])
    /\ pre' = files
    /\ UNCHANGED <<last_run, files, pc, success, procs, exit_code, runs, checkout, focus>>

UnitNext ==
    \/ CallIsFeatureImplemented
    \/ CallImplementFeature
    \/ CallAnalyzeProjectStatus

UnitSpec == UnitInit /\ [][UnitNext]_vars

-----------------------------------------------------------------------------
(* Vocabulary of the properties *)

Words(text) == {text[i] : i \in 1..Len(text)}

\* number of places where needle starts in content
Count(needle, content) ==
    Cardinality({i \in 0..(Len(content) - Len(needle)) :
                     \A j \in 1..Len(needle) : content[i + j] = needle[j]})

LastCall == calls[Len(calls)]

\* the values of the feature's detection predicates on a text
PredicateSet(f, text) ==
    LET W == Words(text)
        LW == {Lower(w) : w \in W}
    IN  CASE f = "p2p-peer-discovery" ->
                 {"UdpSocket" \in W /\ "broadcast" \in LW,
                  "peer_registry" \in W,
                  {"heartbeat", "ping", "pong"} \subseteq W}
          [] f = "tor-integration" ->
                 {"socks5" \in LW \/ "SOCKS5" \in W,
                  {"tor_routing", "circuit"} \cap W # {},
                  {"proxy", "integration"} \subseteq W}
          [] f = "qr-code-implementation" ->
                 {{"qr_code", "generate"} \subseteq W,
                  {"qr_code", "parse"} \subseteq W,
                  {"peer_join", "join_network"} \cap W # {}}

Analyzed == pc # "start"

RunOver == pc \in {"finished", "exited"}

\* the text an application inserts: the feature's template and the "\n"
\* appended to it
InsertedText(f) ==
    (CASE f = "p2p-peer-discovery" -> udp_discovery_code
       [] f = "tor-integration" -> socks5_code
       [] f = "qr-code-implementation" -> qr_code_impl) \o <<"\n">>

\* new is old with ins put in front of the last "}" of old
SplicedBeforeLastBrace(old, ins, new) ==
    \E p \in 1..Len(old) :
        /\ old[p] = "}"
        /\ \A k \in (p + 1)..Len(old) : old[k] # "}"
        /\ Len(new) = Len(old) + Len(ins)
        /\ \A k \in 1..(p - 1) : new[k] = old[k]
        /\ \A k \in 1..Len(ins) : new[p - 1 + k] = ins[k]
        /\ \A k \in p..Len(old) : new[Len(ins) + k] = old[k]

TestsPassed == Len(procs) >= 1 /\ procs[1] = [cmd |-> "cargo test", outcome |-> "exit0"]

-----------------------------------------------------------------------------
(* C1: after the analysis, next_feature is the first feature in            *)
(* declaration order whose status is pending, and it is "none" exactly     *)
(* when no feature is pending.                                             *)
C1_FirstPendingSelected ==
    Analyzed =>
        LET nf == status.next_feature IN
        /\ (nf = "none") <=> (\A f \in Features : features[f].status # "pending")
        /\ nf # "none" =>
               \E j \in 1..Len(FeatureOrder) :
                   /\ FeatureOrder[j] = nf
                   /\ features[nf].status = "pending"
                   /\ \A i \in 1..(j - 1) : features[FeatureOrder[i]].status = "completed"

C1_Witness ==
    /\ pc = "analyzed"
    /\ features["p2p-peer-discovery"].status = "completed"
    /\ features["tor-integration"].status = "pending"
    /\ features["qr-code-implementation"].status = "pending"
    /\ status.next_feature = "tor-integration"

(* C2: _is_feature_implemented returns true if and only if the feature's   *)
(* file exists and every predicate of the feature's set holds on its       *)
(* content; an absent file and a file failing one predicate give false.    *)
C2_CompletedIffAllPredicates ==
    (calls # <<>> /\ LastCall.op = "_is_feature_implemented" /\ LastCall.arg \in Features) =>
        LET file == pre[TargetFile(LastCall.arg)] IN
        /\ LastCall.ret <=>
               (file.exists /\ \A holds \in PredicateSet(LastCall.arg, file.text) : holds)
        /\ ~file.exists => ~LastCall.ret
        /\ (file.exists /\ FALSE \in PredicateSet(LastCall.arg, file.text)) => ~LastCall.ret

C2_Witness ==
    /\ calls # <<>>
    /\ LastCall.op = "_is_feature_implemented"
    /\ LastCall.arg = "tor-integration"
    /\ LastCall.ret
    /\ "tor_routing" \notin Words(pre["tor.rs"].text)

(* C3: implement_feature on an existing file that already contains the     *)
(* feature's idempotency marker writes nothing and returns true.           *)
C3_MarkerPresentNoWrite ==
    (/\ calls # <<>>
     /\ LastCall.op = "implement_feature"
     /\ LastCall.arg \in Features
     /\ pre[TargetFile(LastCall.arg)].exists
     /\ In(Marker(LastCall.arg), pre[TargetFile(LastCall.arg)].text))
        => (files = pre /\ LastCall.ret)

C3_Witness ==
    /\ Len(calls) = 1
    /\ LastCall.op = "implement_feature"
    /\ LastCall.arg = "qr-code-implementation"
    /\ In(Marker(LastCall.arg), checkout["discovery.rs"].text)
    /\ LastCall.ret
    /\ files = checkout

(* C4: when a feature's marker does not occur in its target file of the    *)
(* checkout, it occurs at most once in that file after any number of runs. *)
C4_MarkerAtMostOnce ==
    \A f \in Features :
        Count(Marker(f), checkout[TargetFile(f)].text) = 0
            => Count(Marker(f), files[TargetFile(f)].text) <= 1

C4_Witness ==
    /\ runs = 2
    /\ pc = "testing"
    /\ status.next_feature = "p2p-peer-discovery"
    /\ Count(Marker("p2p-peer-discovery"), checkout["network.rs"].text) = 0
    /\ Count(Marker("p2p-peer-discovery"), files["network.rs"].text) = 1

(* C5: a second application of a feature's patch right after the first     *)
(* leaves the existing target file exactly as the first left it.           *)
C5_ApplyTwiceSame ==
    (/\ Len(calls) >= 2
     /\ LastCall.op = "implement_feature"
     /\ calls[Len(calls) - 1].op = "implement_feature"
     /\ LastCall.arg \in Features
     /\ checkout[TargetFile(LastCall.arg)].exists)
        => files = pre

C5_Witness ==
    /\ Len(calls) = 2
    /\ calls[1].op = "implement_feature"
    /\ calls[2].op = "implement_feature"
    /\ focus = "p2p-peer-discovery"
    /\ files = pre
    /\ files # checkout

(* C6: a run whose selected feature's target file exists, holds neither    *)
(* the feature's marker nor a "}", leaves the file unchanged, gets false   *)
(* from implement_feature and ends with implementation_success = false.    *)
C6_NoBraceReportsFailure ==
    (/\ pc \notin {"start", "analyzed"}
     /\ status.next_feature \in Features
     /\ pre[TargetFile(status.next_feature)].exists
     /\ ~In(Marker(status.next_feature), pre[TargetFile(status.next_feature)].text)
     /\ ~In(<<"}">>, pre[TargetFile(status.next_feature)].text))
        => /\ files = pre
           /\ ~success
           /\ RunOver
           /\ "implementation_success" \in status.keys
           /\ ~status.implementation_success

(* C7: a run whose selected feature's target file does not exist calls     *)
(* implement_feature for it, gets false, changes no file, starts no        *)
(* external process and ends with implementation_success = false; with no  *)
(* target file at all the first declared feature is the one selected,      *)
(* with completed_features = 0 and mvp_progress = 0.                       *)
C7_MissingFileFails ==
    /\ (Analyzed /\ \A n \in FileNames : ~pre[n].exists) =>
           /\ status.next_feature = FeatureOrder[1]
           /\ status.completed_features = 0
           /\ status.mvp_progress = 0
    /\ (/\ pc \notin {"start", "analyzed"}
        /\ status.next_feature \in Features
        /\ ~pre[TargetFile(status.next_feature)].exists)
           => /\ ~success
              /\ files = pre
              /\ procs = <<>>
              /\ RunOver
              /\ "implementation_success" \in status.keys
              /\ ~status.implementation_success

C7_Witness ==
    /\ pc = "exited"
    /\ \A n \in FileNames : ~files[n].exists
    /\ status.next_feature = "p2p-peer-discovery"
    /\ exit_code = 1

(* C8: once the test runner has been started and has not succeeded         *)
(* (non-zero exit status, timeout, failure to start), the run has ended    *)
(* without starting the formatter and with implementation_success = false. *)
C8_GateShortCircuit ==
    (/\ procs # <<>>
     /\ procs[1].cmd = "cargo test"
     /\ procs[1].outcome # "exit0")
        => /\ \A i \in 1..Len(procs) : procs[i].cmd # "cargo fmt"
           /\ RunOver
           /\ "implementation_success" \in status.keys
           /\ ~status.implementation_success

C8_Witness ==
    /\ pc = "exited"
    /\ procs = <<[cmd |-> "cargo test", outcome |-> "timeout"]>>
    /\ exit_code = 1

(* C9: at the end of a run implementation_success is true if and only if   *)
(* no feature was pending, or implement_feature returned true for the      *)
(* selected feature and the test runner passed.                            *)
C9_SuccessIff ==
    RunOver =>
        /\ "implementation_success" \in status.keys
        /\ status.implementation_success <=>
               \/ status.next_feature = "none"
               \/ (status.next_feature \in Features /\ success /\ TestsPassed)

C9_Witness ==
    /\ pc = "finished"
    /\ status.next_feature = "tor-integration"
    /\ success
    /\ TestsPassed
    /\ status.implementation_success

(* C10: a run in which implement_feature returned true and the test        *)
(* runner passed starts the formatter exactly once, after the test         *)
(* runner, and whatever the formatter's outcome the run ends with          *)
(* implementation_success = true and exit code 0.                          *)
C10_FormatterTolerated ==
    /\ \A i \in 1..Len(procs) : procs[i].cmd = "cargo fmt" => (i = 2 /\ TestsPassed)
    /\ (RunOver /\ success /\ TestsPassed) =>
           /\ Len(procs) = 2
           /\ procs[2].cmd = "cargo fmt"
           /\ "implementation_success" \in status.keys
           /\ status.implementation_success
           /\ pc = "exited" => exit_code = 0

C10_Witness ==
    /\ pc = "exited"
    /\ success
    /\ TestsPassed
    /\ Len(procs) = 2
    /\ procs[2] = [cmd |-> "cargo fmt", outcome |-> "timeout"]
    /\ exit_code = 0

(* C11: files are written and external processes started only in runs      *)
(* whose next_feature is a feature; a run that classifies all three        *)
(* features as completed has next_feature = "none", writes no file, starts *)
(* neither the test runner nor the formatter and ends with                 *)
(* implementation_success = true and exit code 0.                          *)
C11_IdleBranch ==
    /\ (Analyzed /\ (files # pre \/ procs # <<>> \/ pc \in {"testing", "formatting"}))
           => status.next_feature \in Features
    /\ (Analyzed /\ \A f \in Features : features[f].status = "completed") =>
           /\ status.next_feature = "none"
           /\ files = pre
           /\ procs = <<>>
           /\ pc \in {"analyzed", "finished", "exited"}
           /\ RunOver => ("implementation_success" \in status.keys
                              /\ status.implementation_success)
           /\ pc = "exited" => exit_code = 0

C11_Witness ==
    /\ pc = "exited"
    /\ \A f \in Features : features[f].status = "completed"
    /\ status.next_feature = "none"
    /\ status.mvp_progress = 100
    /\ exit_code = 0

(* C12: when implement_feature changes a file with content C, the new      *)
(* content is C[0..p) + inserted text + C[p..] with p the position of the  *)
(* last "}" of C: all of C is kept in order around the insertion and the   *)
(* inserted text ends right before that "}".                               *)
C12_SplicePreservesContent ==
    (/\ calls # <<>>
     /\ LastCall.op = "implement_feature"
     /\ files # pre)
        => /\ LastCall.arg \in Features
           /\ pre[TargetFile(LastCall.arg)].exists
           /\ files[TargetFile(LastCall.arg)].exists
           /\ SplicedBeforeLastBrace(pre[TargetFile(LastCall.arg)].text,
                                     InsertedText(LastCall.arg),
                                     files[TargetFile(LastCall.arg)].text)

C12_Witness ==
    /\ Len(calls) = 1
    /\ LastCall.op = "implement_feature"
    /\ focus = "p2p-peer-discovery"
    /\ pre["network.rs"].text = <<"}", "UDP", "}", "PEER">>
    /\ files["network.rs"].text =
           <<"}", "UDP">> \o udp_discovery_code \o <<"\n", "}", "PEER">>

SuccessfulImplementation ==
    /\ RunOver
    /\ status.next_feature \in Features
    /\ "implementation_success" \in status.keys
    /\ status.implementation_success

(* C13 as stated: every run with a selected feature that ends with         *)
(* implementation_success = true has modified exactly one file, the        *)
(* feature's target file, by inserting one patch block with the feature's  *)
(* marker, and has left every other file unchanged.  Stated for the runs   *)
(* whose target file holds a "}", where an insertion point exists.         *)
C13_ExactlyOneFileModified ==
    (SuccessfulImplementation
         /\ "}" \in Words(pre[TargetFile(status.next_feature)].text)) =>
        LET t == TargetFile(status.next_feature) IN
        /\ files[t] # pre[t]
        /\ Count(Marker(status.next_feature), files[t].text)
               = Count(Marker(status.next_feature), pre[t].text) + 1
        /\ \A n \in FileNames \ {t} : files[n] = pre[n]

(* C13 amended: every run with a selected feature that ends with           *)
(* implementation_success = true has modified at most one file, the        *)
(* feature's target file: when that file held no marker of the feature and *)
(* a "}", by inserting one patch block with the marker before the last     *)
(* "}", and otherwise not at all; every other file is unchanged.           *)
C13_AtMostOneFileModified ==
    SuccessfulImplementation =>
        LET f == status.next_feature
            t == TargetFile(f)
        IN  /\ pre[t].exists
            /\ \A n \in FileNames \ {t} : files[n] = pre[n]
            /\ IF ~In(Marker(f), pre[t].text) /\ "}" \in Words(pre[t].text)
               THEN /\ files[t].exists
                    /\ SplicedBeforeLastBrace(pre[t].text, InsertedText(f), files[t].text)
                    /\ Count(Marker(f), files[t].text) = 1
               ELSE files[t] = pre[t]

C13_Witness ==
    /\ SuccessfulImplementation
    /\ status.next_feature = "tor-integration"
    /\ files["tor.rs"] # pre["tor.rs"]
    /\ Count(Marker("tor-integration"), files["tor.rs"].text) = 1

(* C14: in every report total_features = 3 and mvp_progress is            *)
(* floor(100 * completed_features / total_features): 0, 33, 66, 100 for    *)
(* completed_features = 0, 1, 2, 3, an integer in 0..100.                  *)
C14_ProgressArithmetic ==
    Analyzed =>
        /\ status.total_features = 3
        /\ status.completed_features \in 0..3
        /\ status.mvp_progress \in 0..100
        /\ status.mvp_progress * status.total_features <= 100 * status.completed_features
        /\ 100 * status.completed_features
               < (status.mvp_progress + 1) * status.total_features
        /\ status.mvp_progress =
               (CASE status.completed_features = 0 -> 0
                  [] status.completed_features = 1 -> 33
                  [] status.completed_features = 2 -> 66
                  [] status.completed_features = 3 -> 100)

C14_Witness ==
    /\ pc = "finished"
    /\ status.completed_features = 2
    /\ status.mvp_progress = 66

PriorityLabels == {"high", "medium", "low"}

\* the catalog with other priority labels, order and statuses kept
Relabelled(feats, labels) == [f \in Features |-> [feats[f] EXCEPT !.priority = labels[f]]]

(* C15: on every catalog that has the statuses of the analysis and any     *)
(* priority labels, the selector returns the feature it returns on the     *)
(* catalog itself; with statuses completed, pending, pending in            *)
(* declaration order it returns the second feature under every labelling.  *)
C15_SelectionIgnoresPriority ==
    Analyzed =>
        \A labels \in [Features -> PriorityLabels] :
            /\ _get_next_feature(Relabelled(features, labels)) = status.next_feature
            /\ (/\ features[FeatureOrder[1]].status = "completed"
                /\ features[FeatureOrder[2]].status = "pending"
                /\ features[FeatureOrder[3]].status = "pending")
                   => _get_next_feature(Relabelled(features, labels)) = FeatureOrder[2]

C15_Witness ==
    /\ pc = "testing"
    /\ features["p2p-peer-discovery"].status = "completed"
    /\ features["tor-integration"].status = "pending"
    /\ features["qr-code-implementation"].status = "pending"
    /\ features["qr-code-implementation"].priority = "low"
    /\ _get_next_feature(Relabelled(features,
           [f \in Features |-> IF f = "qr-code-implementation" THEN "high" ELSE "low"]))
           = "tor-integration"

(* C16: a run that has completed has exit code 0 when the report's         *)
(* implementation_success is true and exit code 1 otherwise, and no other  *)
(* exit code; before that the process has not exited.                      *)
C16_ExitMirrorsReport ==
    /\ pc # "exited" => exit_code = -1
    /\ pc = "exited" =>
           /\ exit_code \in {0, 1}
           /\ "implementation_success" \in status.keys
           /\ status.implementation_success => exit_code = 0
           /\ ~status.implementation_success => exit_code = 1

C16_Witness ==
    /\ pc = "exited"
    /\ exit_code = 1
    /\ ~status.implementation_success
    /\ Len(procs) = 1
    /\ procs[1].outcome = "nonzero"

(* C17 as stated: at the end of every run in which implement_feature was   *)
(* called for a feature the report holds last_implementation with that     *)
(* feature's name, and in a run without an attempt the field is absent.    *)
C17_LastImplementationWhenAttempted ==
    RunOver =>
        /\ status.next_feature \in Features =>
               /\ "last_implementation" \in status.keys
               /\ status.last_implementation = status.next_feature
        /\ status.next_feature = "none" => "last_implementation" \notin status.keys

(* C17 amended: at the end of a run the report holds last_implementation   *)
(* exactly when a feature was attempted, implement_feature returned true   *)
(* and the test runner passed, and its value is then that feature's name;  *)
(* in every other run (no attempt, failed application, failed tests) the   *)
(* field is absent.                                                        *)
C17_LastImplementationWhenSucceeded ==
    /\ ~RunOver => "last_implementation" \notin status.keys
    /\ RunOver =>
           /\ "last_implementation" \in status.keys
                  <=> (status.next_feature \in Features /\ success /\ TestsPassed)
           /\ "last_implementation" \in status.keys
                  => status.last_implementation = status.next_feature

C17_Witness ==
    /\ pc = "exited"
    /\ "last_implementation" \in status.keys
    /\ status.last_implementation = "qr-code-implementation"
    /\ status.next_feature = "qr-code-implementation"

\* order of the positions of a run
StageRank(p) ==
    CASE p = "start" -> 0
      [] p = "analyzed" -> 1
      [] p = "testing" -> 2
      [] p = "formatting" -> 3
      [] p = "finished" -> 4
      [] p = "exited" -> 5

Started(cmd) == {i \in 1..Len(procs) : procs[i].cmd = cmd}

(* C18: within a run the position only moves forward (analysis, then idle  *)
(* or application and validation, then report and exit) and is never       *)
(* entered twice; the features are analysed in the first step only, files  *)
(* are written in the application step only, every process start moves the *)
(* run on, the test runner is started at most once and only after          *)
(* implement_feature returned true, and the formatter at most once.        *)
C18_ForwardOnly ==
    /\ [](/\ Cardinality(Started("cargo test")) <= 1
          /\ Cardinality(Started("cargo fmt")) <= 1
          /\ Len(procs) <= 2
          /\ procs # <<>> => (success /\ procs[1].cmd = "cargo test"))
    /\ [][\/ /\ pc = "exited"
             /\ pc' = "start"
             /\ runs' = runs + 1
             /\ files' = files
          \/ /\ StageRank(pc') > StageRank(pc)
             /\ runs' = runs
             /\ features' # features => pc = "start"
             /\ files' # files => (pc = "analyzed" /\ pc' = "testing")
             /\ procs' # procs =>
                    /\ pc \in {"testing", "formatting"}
                    /\ Len(procs') = Len(procs) + 1
                    /\ SubSeq(procs', 1, Len(procs)) = procs]_vars

C18_Witness ==
    /\ runs = 2
    /\ pc = "exited"
    /\ Len(procs) = 2
    /\ files # checkout

MissingFileAbort ==
    /\ status.next_feature \in Features
    /\ ~pre[TargetFile(status.next_feature)].exists

MissingInsertionPointAbort ==
    /\ status.next_feature \in Features
    /\ pre[TargetFile(status.next_feature)].exists
    /\ ~In(<<"}">>, pre[TargetFile(status.next_feature)].text)

UnknownFeatureAbort == status.next_feature \notin Features \cup {"none"}

ValidationFailure ==
    /\ Len(procs) = 1
    /\ procs[1].cmd = "cargo test"
    /\ procs[1].outcome # "exit0"

(* C19: every started run, whatever the files and the outcomes of the      *)
(* test runner and the formatter, eventually exits with a report that      *)
(* holds implementation_success, and a run ends with                       *)
(* implementation_success = false only at an abort point: missing file,    *)
(* missing insertion point, unknown feature or validation failure.         *)
C19_Termination ==
    /\ (pc = "start") ~> (pc = "exited" /\ "implementation_success" \in status.keys
                              /\ exit_code \in {0, 1})
    /\ []((RunOver /\ ~status.implementation_success) =>
              \/ MissingFileAbort
              \/ MissingInsertionPointAbort
              \/ UnknownFeatureAbort
              \/ ValidationFailure)

C19_Witness ==
    /\ runs = 2
    /\ pc = "exited"
    /\ "implementation_success" \in status.keys
    /\ ~status.implementation_success
    /\ ValidationFailure
    /\ procs[1].outcome = "error"

\* what the content of the feature's file alone says
ContentSaysCompleted(f, fs) ==
    /\ f \in Features
    /\ fs[TargetFile(f)].exists
    /\ \A holds \in PredicateSet(f, fs[TargetFile(f)].text) : holds

(* C20: a call of _is_feature_implemented changes no file, no recorded     *)
(* status and nothing else but the call's own result, and its result is    *)
(* what the content of the feature's file says at the time of the call,    *)
(* whatever status an earlier analysis recorded for the feature.           *)
C20_AnalyzerPure ==
    [][(/\ Len(calls') = Len(calls) + 1
        /\ calls'[Len(calls')].op = "_is_feature_implemented")
          => /\ files' = files
             /\ features' = features
             /\ status' = status
             /\ procs' = procs
             /\ calls'[Len(calls')].arg = focus
             /\ calls'[Len(calls')].ret = ContentSaysCompleted(focus, files)]_vars

C20_Witness ==
    /\ Len(calls) = 3
    /\ calls[1].op = "analyze_project_status"
    /\ calls[2].op = "implement_feature"
    /\ calls[3].op = "_is_feature_implemented"
    /\ focus = "p2p-peer-discovery"
    /\ features[focus].status = "pending"
    /\ calls[3].ret

-----------------------------------------------------------------------------
(* C21: implement_feature called with a name that is not one of the three  *)
(* catalog features returns False, leaves every file as it was and starts  *)
(* no process; nothing of the agent's recorded state changes.              *)
C21_UnknownFeatureFails ==
    (/\ Len(calls) >= 1
     /\ LastCall.op = "implement_feature"
     /\ LastCall.arg \notin Features) =>
        /\ LastCall.ret = FALSE
        /\ files = pre
        /\ procs = <<>>
        /\ features = InitFeatures \/ \E i \in 1..Len(calls) : calls[i].op = "analyze_project_status"

\* implement_feature("unknown-feature") was called twice in a row
C21_Witness ==
    /\ Len(calls) >= 2
    /\ LastCall.op = "implement_feature"
    /\ calls[Len(calls) - 1].op = "implement_feature"
    /\ LastCall.arg = UnknownFeature
    /\ LastCall.ret = FALSE
    /\ files = checkout

-----------------------------------------------------------------------------
\* the current run is not the first one on the checkout
LaterRun == runs >= 2

\* the features a status map records as completed
CompletedIn(feats) == {f \in Features : feats[f].status = "completed"}

(* C22: over successive runs on the same checkout a feature classified     *)
(* completed in one run is classified completed in the next run and in     *)
(* every later one, completed_features and mvp_progress never decrease     *)
(* from one run to the next, and within a run no write takes a feature's   *)
(* file from content that says completed to content that does not.         *)
C22_CompletionMonotone ==
    /\ \A f \in Features : ContentSaysCompleted(f, pre) => ContentSaysCompleted(f, files)
    /\ Analyzed =>
           /\ CompletedIn(features) = {f \in Features : ContentSaysCompleted(f, pre)}
           /\ \A f \in Features :
                  ContentSaysCompleted(f, checkout) => features[f].status = "completed"
    /\ (LaterRun /\ Analyzed) =>
           /\ CompletedIn(last_run.features) \subseteq CompletedIn(features)
           /\ status.completed_features >= last_run.status.completed_features
           /\ status.mvp_progress >= last_run.status.mvp_progress

\* a later run finds p2p completed as the run before did, and one more
\* feature completed by the patch that the run before inserted
C22_Witness ==
    /\ LaterRun
    /\ Analyzed
    /\ last_run.features["p2p-peer-discovery"].status = "completed"
    /\ features["p2p-peer-discovery"].status = "completed"
    /\ last_run.files # pre
    /\ status.completed_features > last_run.status.completed_features
    /\ status.mvp_progress > last_run.status.mvp_progress

-----------------------------------------------------------------------------
\* position of a feature in the declaration order, 0 for "none"
Position(name) ==
    IF name \in Features THEN CHOOSE i \in 1..Len(FeatureOrder) : FeatureOrder[i] = name
    ELSE 0

\* the run before this one selected a feature and wrote its target file
LastRunInserted ==
    /\ LaterRun
    /\ last_run.status.next_feature \in Features
    /\ pre[TargetFile(last_run.status.next_feature)] #
           last_run.files[TargetFile(last_run.status.next_feature)]

(* C23 as stated: when a run selected feature F, inserted F's patch block  *)
(* and ended with implementation_success = true, the next run classifies F *)
(* as completed and selects a feature declared after F, or "none".         *)
C23_PipelineAdvances ==
    (/\ LastRunInserted
     /\ GetImplementationSuccess(last_run.status)
     /\ Analyzed) =>
        LET F == last_run.status.next_feature IN
            /\ features[F].status = "completed"
            /\ \/ status.next_feature = "none"
               \/ Position(status.next_feature) > Position(F)

-----------------------------------------------------------------------------
\* the applier of feature f, started on the files fs, inserts f's patch
Inserts(f, fs) ==
    /\ f \in Features
    /\ fs[TargetFile(f)].exists
    /\ ~In(Marker(f), fs[TargetFile(f)].text)
    /\ In(<<"}">>, fs[TargetFile(f)].text)

\* the run before this one inserted a patch and its tests then failed
LastRunInsertedAndFailed ==
    /\ LastRunInserted
    /\ last_run.success
    /\ ~GetImplementationSuccess(last_run.status)

\* a run that inserted a patch and whose tests failed or timed out ends
\* with the patch in the target file and implementation_success = false
PatchKeptAfterFailure ==
    (/\ RunOver
     /\ Inserts(status.next_feature, pre)
     /\ ValidationFailure) =>
        LET t == TargetFile(status.next_feature) IN
            /\ SplicedBeforeLastBrace(pre[t].text, InsertedText(status.next_feature),
                                      files[t].text)
            /\ In(Marker(status.next_feature), files[t].text)
            /\ "implementation_success" \in status.keys
            /\ ~status.implementation_success

-----------------------------------------------------------------------------
(* C25: in every report, from the analysis to the end of the run,          *)
(* completed_features is the number of features the features map records   *)
(* as completed, total_features is 3, next_feature is "none" exactly when   *)
(* completed_features = total_features, a concrete next_feature is recorded *)
(* as pending with every feature declared before it recorded as completed,  *)
(* and the recorded statuses are those of the content the run began with,   *)
(* also after the run has patched a file.                                   *)
C25_ReportConsistent ==
    Analyzed =>
        /\ {"completed_features", "total_features", "next_feature", "features"}
               \subseteq status.keys
        /\ status.completed_features = Cardinality(CompletedIn(features))
        /\ status.total_features = 3
        /\ status.next_feature \in Features \cup {"none"}
        /\ status.next_feature = "none" <=>
               status.completed_features = status.total_features
        /\ status.next_feature \in Features =>
               /\ features[status.next_feature].status = "pending"
               /\ \A g \in Features :
                      Position(g) < Position(status.next_feature) =>
                          features[g].status = "completed"
        /\ \A f \in Features :
               features[f].status = (IF ContentSaysCompleted(f, pre) THEN "completed"
                                     ELSE "pending")

\* a finished run reports tor-integration as pending and as its next
\* feature after p2p, while the file it patched now says completed
C25_Witness ==
    /\ RunOver
    /\ status.next_feature = "tor-integration"
    /\ status.completed_features = 1
    /\ features["tor-integration"].status = "pending"
    /\ files # pre
    /\ ContentSaysCompleted("tor-integration", files)

====
